---- MODULE Spec2Model ----
(***************************************************************************)
(* Test-data lifecycle of src/core/data/factory.manager.ts:                *)
(*   FixtureManager  (register / load / unload / unloadAll)                *)
(*   FactoryManager  (define / create / createMany / cleanup / reset)      *)
(*                                                                         *)
(* Every async method call is a frame.  A frame runs atomically from one   *)
(* await to the next (the JavaScript event loop is single threaded); the   *)
(* synchronous prefix of a call, nested calls included, is part of the     *)
(* step that makes the call.  Frames of different calls interleave at      *)
(* their await points.                                                     *)
(***************************************************************************)
EXTENDS Integers, Sequences, FiniteSets, TLC

\* ------------------------------------------------------------------------
\* Bounds
\* ------------------------------------------------------------------------
\* number of top-level load / unload / unloadAll calls in one behaviour
MaxCalls == 3
\* depth of synchronous recursion the engine allows before it throws
\* RangeError (maximum call stack size exceeded)
StackLimit == 3
\* a top-level call is made only while it leaves at most this many frames
MaxFrames == 6

\* ------------------------------------------------------------------------
\* Fixture definitions used as inputs of register
\* ------------------------------------------------------------------------
Names == {"a", "b", "c"}

\* FixtureConfig (scope is advisory and never read by the manager).
\* hasDeps = FALSE models `dependencies` being undefined.
FixtureConfig(n, hd, d, s, t) ==
    [name |-> n, hasDeps |-> hd, dependencies |-> d, setup |-> s, teardown |-> t]

\* a: a root fixture, with or without callbacks; b: depends on a, or on a
\* and c (a cycle once c is registered); c: depends on b
FixtureInputs ==
    { FixtureConfig("a", FALSE, <<>>, TRUE, TRUE),
      FixtureConfig("a", FALSE, <<>>, FALSE, FALSE),
      FixtureConfig("b", TRUE, <<"a">>, TRUE, TRUE),
      FixtureConfig("b", TRUE, <<"a", "c">>, TRUE, TRUE),
      FixtureConfig("c", TRUE, <<"b">>, TRUE, TRUE) }

\* a and c: two fixtures unrelated by dependency, a with or without
\* callbacks; b: depends on both, in that order
ResolverInputs ==
    { FixtureConfig("a", FALSE, <<>>, TRUE, TRUE),
      FixtureConfig("a", FALSE, <<>>, FALSE, FALSE),
      FixtureConfig("c", FALSE, <<>>, TRUE, TRUE),
      FixtureConfig("b", TRUE, <<"a", "c">>, TRUE, TRUE) }

VARIABLES
    fixtures,         \* FixtureManager.fixtures: Map in insertion order
    loadedFixtures,   \* FixtureManager.loadedFixtures: Set in insertion order
    setupPromises,    \* FixtureManager.setupPromises: name -> frame id, 0 = no entry
    frames,           \* every async call made so far, in call order
    calls,            \* number of top-level calls made
    setupStarted,     \* name -> number of invocations of fixture.setup
    setupResolved,    \* name -> number of resolved invocations of fixture.setup
    teardownStarted,  \* name -> number of invocations of fixture.teardown
    removed,          \* name -> number of loadedFixtures.delete(name) that removed it
    registerResult    \* outcome of the latest register call

fixtureVars == <<fixtures, loadedFixtures, setupPromises, frames, calls,
                 setupStarted, setupResolved, teardownStarted, removed,
                 registerResult>>

VARIABLES
    factories,          \* FactoryManager.factories: entity name -> definition
    entities,           \* state.entities: Map in insertion order of
                        \*   [name, items], items the tracked array
    cleanupStrategies,  \* state.cleanupStrategies: entity name -> strategy
    calls2,             \* every async call made on the factory manager
    factoryCalls,       \* number of top-level calls made
    defines,            \* number of define calls made
    generated,          \* number of invocations of factory.attributes
    hookCalls,          \* invocations of [before |-> beforeCreate, after |-> afterCreate]
    cleaned             \* ids handed to cleanupEntities, in order

factoryVars == <<factories, entities, cleanupStrategies, calls2, factoryCalls,
                 defines, generated, hookCalls, cleaned>>

VARIABLES
    seeders,            \* DatabaseSeeder.seeders and .config: name -> configuration
    nodeEnv,            \* process.env.NODE_ENV
    seeds               \* every seed(names) call made so far, in call order

seederVars == <<seeders, nodeEnv, seeds>>

vars == <<fixtureVars, factoryVars, seederVars>>

\* ------------------------------------------------------------------------
\* Map / Set helpers
\* ------------------------------------------------------------------------
Range(s) == { s[i] : i \in 1..Len(s) }

\* Set.prototype.add on an insertion-ordered set
SetAdd(s, x) == IF x \in Range(s) THEN s ELSE Append(s, x)

\* Set.prototype.delete
SetDelete(s, x) == SelectSeq(s, LAMBDA y : y # x)

\* Map.prototype.has on fixtures
HasFixture(n) == \E i \in 1..Len(fixtures) : fixtures[i].name = n

\* Map.prototype.get on fixtures
GetFixture(n) == fixtures[CHOOSE i \in 1..Len(fixtures) : fixtures[i].name = n]

\* fix.dependencies?.includes(name)
DependsOn(fix, n) == fix.hasDeps /\ n \in Range(fix.dependencies)

\* the declared dependencies of n, as a set
DeclaredDeps(n) ==
    IF HasFixture(n) /\ GetFixture(n).hasDeps
    THEN Range(GetFixture(n).dependencies) ELSE {}

RECURSIVE Reach(_, _)
Reach(S, k) ==
    IF k = 0 THEN S ELSE Reach(S \cup UNION { DeclaredDeps(m) : m \in S }, k - 1)

\* the transitive dependencies of n in the registered graph
TransDeps(n) == Reach(DeclaredDeps(n), Cardinality(Names))

\* the graph reachable from n has a cycle
CyclicFrom(n) == \E m \in TransDeps(n) \cup {n} : m \in TransDeps(m)

\* ------------------------------------------------------------------------
\* Frames
\* ------------------------------------------------------------------------
\* op:      "load" | "setupPromise" | "unload" | "unloadAll"
\* status:  "pending" | "resolved" | "rejected"
\* pc:      the await the frame is suspended at
\* err:     rejection reason; for a frame awaiting Promise.all, the reason
\*          Promise.all has already rejected with ("none" if it has not)
\* waitOn:  the frames whose promises the frame awaits
\* idx:     position of the Map / array iterator of the frame's loop
\* snap:    unloadAll's snapshot Array.from(loadedFixtures)
\* overlap, removedAtCall, wasLoaded, cyclic: the state at call time
NewFrame(op, n, parent, root, st) ==
    [op |-> op, name |-> n, parent |-> parent, root |-> root,
     status |-> "pending", pc |-> "start", err |-> "none",
     waitOn |-> <<>>, idx |-> 0, snap |-> <<>>,
     overlap |-> { i \in 1..Len(st.frames) :
                     /\ st.frames[i].op = op
                     /\ st.frames[i].name = n
                     /\ st.frames[i].status = "pending" },
     removedAtCall |-> IF n \in Names THEN st.removed[n] ELSE 0,
     wasLoaded |-> n \in Range(st.loadedFixtures),
     cyclic |-> CyclicFrom(n)]

\* the promise of frame id resolves
Resolve(st, id) ==
    [st EXCEPT !.frames[id].status = "resolved", !.frames[id].pc = "done"]

\* the promise of frame id rejects with e; a parent suspended in
\* Promise.all rejects with the first rejection it sees
Reject(st, id, e) ==
    LET p == st.frames[id].parent
        s1 == [st EXCEPT !.frames[id].status = "rejected",
                         !.frames[id].pc = "done",
                         !.frames[id].err = e]
    IN IF p # 0 /\ s1.frames[p].pc = "awaitDeps" /\ s1.frames[p].err = "none"
       THEN [s1 EXCEPT !.frames[p].err = e]
       ELSE s1

\* reason of the first already-rejected promise of ids, in array order
FirstRejection(st, ids) ==
    LET rej == { k \in 1..Len(ids) : st.frames[ids[k]].status = "rejected" }
    IN IF rej = {} THEN "none"
       ELSE st.frames[ids[CHOOSE k \in rej : \A j \in rej : k <= j]].err

\* ------------------------------------------------------------------------
\* FixtureManager.load
\* ------------------------------------------------------------------------
\* lines 232-242: the setup promise and its registration
RunSetup(st, id) ==
    LET n == st.frames[id].name
        sid == Len(st.frames) + 1
        f == NewFrame("setupPromise", n, id, st.frames[id].root, st)
        s1 == [st EXCEPT !.frames = Append(@, f)]
        s2 == IF GetFixture(n).setup
              THEN [s1 EXCEPT !.frames[sid].pc = "awaitSetup",
                              !.setupStarted[n] = @ + 1]
              ELSE Resolve([s1 EXCEPT !.loadedFixtures = SetAdd(@, n),
                                      !.setupPromises[n] = 0], sid)
    IN [s2 EXCEPT !.setupPromises[n] = sid,
                  !.frames[id].pc = "awaitSetupPromise",
                  !.frames[id].waitOn = <<sid>>]

RECURSIVE LoadCall(_, _, _, _, _)
RECURSIVE LoadDeps(_, _, _, _)

\* mutant of LoadCall: without the check of lines 218-220
LoadCallNoLoadedCheck(st, n, parent, root, depth) ==
    LET id == Len(st.frames) + 1
        r == IF root = 0 THEN id ELSE root
        s0 == [st EXCEPT !.frames = Append(@, NewFrame("load", n, parent, r, st))]
    IN IF ~HasFixture(n) THEN Reject(s0, id, "FixtureNotFound")
       ELSE IF st.setupPromises[n] # 0
       THEN [s0 EXCEPT !.frames[id].pc = "join",
                       !.frames[id].waitOn = <<st.setupPromises[n]>>]
       ELSE IF GetFixture(n).hasDeps THEN LoadDeps(s0, id, 1, depth)
       ELSE RunSetup(s0, id)

\* lines 206-230: the synchronous prefix of load(n), up to its first await
LoadCall(st, n, parent, root, depth) ==
    LET id == Len(st.frames) + 1
        r == IF root = 0 THEN id ELSE root
        s0 == [st EXCEPT !.frames = Append(@, NewFrame("load", n, parent, r, st))]
    IN IF ~HasFixture(n) THEN Reject(s0, id, "FixtureNotFound")
       ELSE IF st.setupPromises[n] # 0
       THEN [s0 EXCEPT !.frames[id].pc = "join",
                       !.frames[id].waitOn = <<st.setupPromises[n]>>]
       ELSE IF n \in Range(st.loadedFixtures) THEN Resolve(s0, id)
       ELSE IF GetFixture(n).hasDeps THEN LoadDeps(s0, id, 1, depth)
       ELSE RunSetup(s0, id)

\* lines 227-229: fixture.dependencies.map(dep => this.load(dep)), then
\* await Promise.all(...)
LoadDeps(st, id, k, depth) ==
    LET deps == GetFixture(st.frames[id].name).dependencies
        cid == Len(st.frames) + 1
    IN IF k > Len(deps)
       THEN [st EXCEPT !.frames[id].pc = "awaitDeps",
                       !.frames[id].err = FirstRejection(st, st.frames[id].waitOn)]
       ELSE IF depth + 1 > StackLimit
       THEN Reject(st, id, "RangeError")
       ELSE LoadDeps([LoadCall(st, deps[k], id, st.frames[id].root, depth + 1)
                        EXCEPT !.frames[id].waitOn = Append(@, cid)],
                     id, k + 1, depth)

\* mutant of DepsSettled: load does not wait for the dependencies' loads
DepsSettledNoAwait(st, id) == TRUE

\* Promise.all(ps) has settled: it rejected, or every promise resolved
DepsSettled(st, id) ==
    \/ st.frames[id].err # "none"
    \/ \A k \in 1..Len(st.frames[id].waitOn) :
          st.frames[st.frames[id].waitOn[k]].status = "resolved"

\* ------------------------------------------------------------------------
\* FixtureManager.unload
\* ------------------------------------------------------------------------
RECURSIVE UnloadCall(_, _, _, _, _)
RECURSIVE UnloadLoop(_, _, _)

\* lines 254-262
UnloadCall(st, n, parent, root, depth) ==
    LET id == Len(st.frames) + 1
        r == IF root = 0 THEN id ELSE root
        s0 == [st EXCEPT !.frames = Append(@, NewFrame("unload", n, parent, r, st))]
    IN IF ~HasFixture(n) THEN Reject(s0, id, "FixtureNotFound")
       ELSE IF n \notin Range(st.loadedFixtures) THEN Resolve(s0, id)
       ELSE UnloadLoop(s0, id, depth)

\* lines 267-279: the loop over fixtures.entries() from the iterator's
\* position, then the teardown
UnloadLoop(st, id, depth) ==
    LET n == st.frames[id].name
        rest == { j \in (st.frames[id].idx + 1)..Len(fixtures) :
                     DependsOn(fixtures[j], n) }
        cid == Len(st.frames) + 1
    IN IF rest # {}
       THEN LET j == CHOOSE j \in rest : \A i \in rest : j <= i
            IN IF depth + 1 > StackLimit
               THEN Reject(st, id, "RangeError")
               ELSE [UnloadCall(st, fixtures[j].name, id, st.frames[id].root, depth + 1)
                       EXCEPT !.frames[id].idx = j,
                              !.frames[id].pc = "awaitChild",
                              !.frames[id].waitOn = <<cid>>]
       ELSE IF GetFixture(n).teardown
       THEN [st EXCEPT !.frames[id].idx = Len(fixtures),
                       !.frames[id].pc = "awaitTeardown",
                       !.teardownStarted[n] = @ + 1]
       ELSE Resolve([st EXCEPT !.frames[id].idx = Len(fixtures),
                               !.removed[n] = IF n \in Range(st.loadedFixtures)
                                              THEN @ + 1 ELSE @,
                               !.loadedFixtures = SetDelete(@, n)], id)

\* lines 304-309: the loop of unloadAll over its snapshot
UnloadAllLoop(st, id) ==
    LET k == st.frames[id].idx + 1
        cid == Len(st.frames) + 1
    IN IF k > Len(st.frames[id].snap)
       THEN Resolve(st, id)
       ELSE [UnloadCall(st, st.frames[id].snap[k], id, st.frames[id].root, 2)
               EXCEPT !.frames[id].idx = k,
                      !.frames[id].pc = "awaitChild",
                      !.frames[id].waitOn = <<cid>>]

\* ------------------------------------------------------------------------
\* Actions of the fixture manager
\* ------------------------------------------------------------------------
State == [frames |-> frames, loadedFixtures |-> loadedFixtures,
          setupPromises |-> setupPromises, setupStarted |-> setupStarted,
          setupResolved |-> setupResolved, teardownStarted |-> teardownStarted,
          removed |-> removed]

Install(st) ==
    /\ frames' = st.frames
    /\ loadedFixtures' = st.loadedFixtures
    /\ setupPromises' = st.setupPromises
    /\ setupStarted' = st.setupStarted
    /\ setupResolved' = st.setupResolved
    /\ teardownStarted' = st.teardownStarted
    /\ removed' = st.removed

\* the outcome of register(config): the name and the error thrown
RegisterResult(n, e) == [name |-> n, err |-> e]

\* mutant of Register: fixtures.set without the check of lines 197-199
RegisterOverwrite(config) ==
    /\ registerResult' = RegisterResult(config.name, "none")
    /\ fixtures' = IF HasFixture(config.name)
                   THEN [i \in 1..Len(fixtures) |->
                           IF fixtures[i].name = config.name THEN config
                           ELSE fixtures[i]]
                   ELSE Append(fixtures, config)
    /\ UNCHANGED <<loadedFixtures, setupPromises, frames, calls,
                   setupStarted, setupResolved, teardownStarted, removed>>
    /\ UNCHANGED <<factoryVars, seederVars>>

\* register(config), lines 196-201; a duplicate name throws
Register(config) ==
    /\ IF HasFixture(config.name)
       THEN /\ registerResult' = RegisterResult(config.name, "AlreadyRegistered")
            /\ fixtures' = fixtures
       ELSE /\ registerResult' = RegisterResult(config.name, "none")
            /\ fixtures' = Append(fixtures, config)
    /\ UNCHANGED <<loadedFixtures, setupPromises, frames, calls,
                   setupStarted, setupResolved, teardownStarted, removed>>
    /\ UNCHANGED <<factoryVars, seederVars>>

\* a caller invokes load(n)
Load(n) ==
    /\ calls < MaxCalls
    /\ calls' = calls + 1
    /\ Len(LoadCall(State, n, 0, 0, 1).frames) <= MaxFrames
    /\ Install(LoadCall(State, n, 0, 0, 1))
    /\ UNCHANGED <<fixtures, registerResult, factoryVars, seederVars>>

\* a caller invokes unload(n)
Unload(n) ==
    /\ calls < MaxCalls
    /\ calls' = calls + 1
    /\ Len(UnloadCall(State, n, 0, 0, 1).frames) <= MaxFrames
    /\ Install(UnloadCall(State, n, 0, 0, 1))
    /\ UNCHANGED <<fixtures, registerResult, factoryVars, seederVars>>

\* a caller invokes unloadAll()
UnloadAll ==
    /\ calls < MaxCalls
    /\ calls' = calls + 1
    /\ LET id == Len(frames) + 1
           f == [NewFrame("unloadAll", "*", 0, id, State)
                   EXCEPT !.snap = loadedFixtures]
           st == UnloadAllLoop([State EXCEPT !.frames = Append(@, f)], id)
       IN Len(st.frames) <= MaxFrames /\ Install(st)
    /\ UNCHANGED <<fixtures, registerResult, factoryVars, seederVars>>

\* the promise returned by fixture.setup() resolves: lines 237-238
SetupResolves(id) ==
    /\ frames[id].pc = "awaitSetup"
    /\ LET n == frames[id].name
       IN Install(Resolve([State EXCEPT !.loadedFixtures = SetAdd(@, n),
                                        !.setupPromises[n] = 0,
                                        !.setupResolved[n] = @ + 1], id))
    /\ UNCHANGED <<fixtures, calls, registerResult, factoryVars, seederVars>>

\* the promise returned by fixture.setup() rejects
SetupRejects(id) ==
    /\ frames[id].pc = "awaitSetup"
    /\ Install(Reject(State, id, "SetupError"))
    /\ UNCHANGED <<fixtures, calls, registerResult, factoryVars, seederVars>>

\* load resumes after await Promise.all(...): lines 227-242, catch 245-248
LoadAfterDeps(id) ==
    /\ frames[id].pc = "awaitDeps"
    /\ DepsSettled(State, id)
    /\ Install(IF frames[id].err # "none"
               THEN Reject([State EXCEPT !.frames[id].err = "none"], id, frames[id].err)
               ELSE RunSetup(State, id))
    /\ UNCHANGED <<fixtures, calls, registerResult, factoryVars, seederVars>>

\* load resumes after await setupPromise (line 242), or settles as the
\* in-flight promise it returned (line 214)
LoadAfterSetup(id) ==
    /\ frames[id].pc \in {"awaitSetupPromise", "join"}
    /\ LET p == frames[frames[id].waitOn[1]]
       IN /\ p.status # "pending"
          /\ Install(IF p.status = "resolved"
                     THEN Resolve(State, id)
                     ELSE Reject(State, id, p.err))
    /\ UNCHANGED <<fixtures, calls, registerResult, factoryVars, seederVars>>

\* unload / unloadAll resumes after await this.unload(...)
UnloadAfterChild(id) ==
    /\ frames[id].pc = "awaitChild"
    /\ LET c == frames[frames[id].waitOn[1]]
       IN /\ c.status # "pending"
          /\ Install(IF c.status = "rejected" THEN Reject(State, id, c.err)
                     ELSE IF frames[id].op = "unloadAll" THEN UnloadAllLoop(State, id)
                     ELSE UnloadLoop(State, id, 1))
    /\ UNCHANGED <<fixtures, calls, registerResult, factoryVars, seederVars>>

\* the promise returned by fixture.teardown() resolves: line 279
TeardownResolves(id) ==
    /\ frames[id].pc = "awaitTeardown"
    /\ LET n == frames[id].name
       IN Install(Resolve([State EXCEPT
                     !.removed[n] = IF n \in Range(loadedFixtures) THEN @ + 1 ELSE @,
                     !.loadedFixtures = SetDelete(@, n)], id))
    /\ UNCHANGED <<fixtures, calls, registerResult, factoryVars, seederVars>>

\* the promise returned by fixture.teardown() rejects
TeardownRejects(id) ==
    /\ frames[id].pc = "awaitTeardown"
    /\ Install(Reject(State, id, "TeardownError"))
    /\ UNCHANGED <<fixtures, calls, registerResult, factoryVars, seederVars>>

\* the callers of this specification register each name once
FixtureNext ==
    \/ \E config \in FixtureInputs : ~HasFixture(config.name) /\ Register(config)
    \/ \E n \in Names : Load(n)
    \/ \E n \in Names : Unload(n)
    \/ UnloadAll
    \/ \E id \in 1..Len(frames) : SetupResolves(id)
    \/ \E id \in 1..Len(frames) : SetupRejects(id)
    \/ \E id \in 1..Len(frames) : LoadAfterDeps(id)
    \/ \E id \in 1..Len(frames) : LoadAfterSetup(id)
    \/ \E id \in 1..Len(frames) : UnloadAfterChild(id)
    \/ \E id \in 1..Len(frames) : TeardownResolves(id)
    \/ \E id \in 1..Len(frames) : TeardownRejects(id)


\* ========================================================================
\* FactoryManager
\* ========================================================================
\* number of top-level create / createMany / cleanup / reset calls
MaxFactoryCalls == 3
\* number of define calls
MaxDefines == 2
\* largest count passed to createMany
MaxCount == 2
\* a top-level call is made only while it leaves at most this many frames
MaxFactoryFrames == 3

Types == {"user", "project"}

\* the cleanup strategies used as inputs of cleanup
Strategies == {"afterTest", "afterSuite"}

\* FactoryDefinition; cleanupStrategy "undefined" models the field being
\* absent, beforeCreate / afterCreate say whether the hook is present
FactoryDefinition(e, cs, b, a) ==
    [entity |-> e, cleanupStrategy |-> cs, beforeCreate |-> b, afterCreate |-> a]

NoFactory == FactoryDefinition("none", "undefined", FALSE, FALSE)

FactoryInputs ==
    { FactoryDefinition("user", "undefined", TRUE, TRUE),
      FactoryDefinition("user", "afterSuite", FALSE, FALSE),
      FactoryDefinition("project", "afterSuite", FALSE, TRUE) }

\* definition.cleanupStrategy || 'afterTest'
DeclaredStrategy(definition) ==
    IF definition.cleanupStrategy = "undefined" THEN "afterTest"
    ELSE definition.cleanupStrategy


\* an entity record: id is the generator invocation that produced it;
\* strategy is the declared strategy of the definition it was created under
Entity(id, n, definition, t) ==
    [id |-> id, entity |-> n, strategy |-> DeclaredStrategy(definition),
     transient |-> t]

NoEntity == [id |-> 0, entity |-> "none", strategy |-> "none", transient |-> FALSE]

\* op:       "create" | "createMany" | "cleanup"
\* name:     the entity name, or the strategy of a cleanup
\* factory:  the definition create read at line 57
\* entity:   the entity of a create; result: the array of a createMany
\* idx, key: position of the Map iterator of a cleanup and the entry it holds
\* before, opsAtCall, alone: the state at call time
NewCall(op, n, parent, st) ==
    [op |-> op, name |-> n, parent |-> parent,
     status |-> "pending", pc |-> "start", err |-> "none",
     factory |-> NoFactory, transient |-> FALSE, entity |-> NoEntity,
     count |-> 0, result |-> <<>>, waitOn |-> <<>>, idx |-> 0, key |-> "none",
     before |-> IF op = "cleanup" THEN st.entities ELSE <<>>,
     opsAtCall |-> st.factoryCalls + st.defines,
     alone |-> \A i \in 1..Len(st.frames) : st.frames[i].status # "pending"]

HasBucket(ents, n) == \E i \in 1..Len(ents) : ents[i].name = n

BucketIndex(ents, n) == CHOOSE i \in 1..Len(ents) : ents[i].name = n

\* trackEntity, lines 116-121
TrackEntity(st, n, e) ==
    LET ents == IF HasBucket(st.entities, n) THEN st.entities
                ELSE Append(st.entities, [name |-> n, items |-> <<>>])
    IN [st EXCEPT !.entities =
            [ents EXCEPT ![BucketIndex(ents, n)].items = Append(@, e)]]

\* mutant of FinishCreate: the entity is tracked whatever options.transient is
FinishCreateTrackAll(st, id) ==
    Resolve(TrackEntity(st, st.frames[id].name, st.frames[id].entity), id)

\* create, lines 84-90
FinishCreate(st, id) ==
    Resolve(IF ~st.frames[id].transient
            THEN TrackEntity(st, st.frames[id].name, st.frames[id].entity)
            ELSE st, id)

\* create, lines 79-82
AfterCreate(st, id) ==
    IF st.frames[id].factory.afterCreate
    THEN [st EXCEPT !.frames[id].pc = "awaitAfterCreate",
                    !.hookCalls.after = @ + 1]
    ELSE FinishCreate(st, id)

\* what a call of factory.attributes() does
GeneratorOutcomes == {"returns", "throws"}

\* create, lines 53-74: the synchronous prefix of create(n, {transient: t}),
\* g being the outcome of factory.attributes()
CreateCall(st, n, t, parent, g) ==
    LET id == Len(st.frames) + 1
        s0 == [st EXCEPT !.frames = Append(@, NewCall("create", n, parent, st))]
    IN IF n \notin Types \/ st.factories[n] = NoFactory
       THEN Reject(s0, id, "FactoryNotFound")
       ELSE LET def == st.factories[n]
                s1 == [s0 EXCEPT !.generated = @ + 1,
                                 !.frames[id].factory = def,
                                 !.frames[id].transient = t,
                                 !.frames[id].entity =
                                     Entity(st.generated + 1, n, def, t)]
            IN IF g = "throws"
               THEN Reject([s1 EXCEPT !.frames[id].entity = NoEntity],
                           id, "GeneratorError")
               ELSE IF def.beforeCreate
               THEN [s1 EXCEPT !.frames[id].pc = "awaitBeforeCreate",
                               !.hookCalls.before = @ + 1]
               ELSE AfterCreate(s1, id)

\* mutant of CreateManyLoop: the loop runs while i <= count
CreateManyLoopOffByOne(st, id, g) ==
    LET cid == Len(st.frames) + 1
    IN IF Len(st.frames[id].result) <= st.frames[id].count
       THEN [CreateCall(st, st.frames[id].name, st.frames[id].transient, id, g)
               EXCEPT !.frames[id].pc = "awaitCreate",
                      !.frames[id].waitOn = <<cid>>]
       ELSE Resolve(st, id)

\* createMany, lines 105-110: the loop from i = entities.length on
CreateManyLoop(st, id, g) ==
    LET cid == Len(st.frames) + 1
    IN IF Len(st.frames[id].result) < st.frames[id].count
       THEN [CreateCall(st, st.frames[id].name, st.frames[id].transient, id, g)
               EXCEPT !.frames[id].pc = "awaitCreate",
                      !.frames[id].waitOn = <<cid>>]
       ELSE Resolve(st, id)

\* Map.prototype.delete(n) on entities; the iterators of the cleanup loops
\* in flight keep their place
DeleteBucket(st, n) ==
    IF ~HasBucket(st.entities, n) THEN st
    ELSE LET q == BucketIndex(st.entities, n)
         IN [st EXCEPT
               !.entities = SubSeq(@, 1, q - 1) \o SubSeq(@, q + 1, Len(@)),
               !.frames = [i \in 1..Len(@) |->
                              IF @[i].op = "cleanup" /\ @[i].idx >= q
                              THEN [@[i] EXCEPT !.idx = @ - 1] ELSE @[i]]]

\* cleanup, lines 127-130: the loop over entities.entries() from the
\* iterator's position up to the call of cleanupEntities (lines 139-147)
CleanupLoop(st, id) ==
    LET match == { j \in (st.frames[id].idx + 1)..Len(st.entities) :
                     st.cleanupStrategies[st.entities[j].name] = st.frames[id].name }
    IN IF match = {}
       THEN Resolve([st EXCEPT !.frames[id].idx = Len(st.entities)], id)
       ELSE LET j == CHOOSE j \in match : \A i \in match : j <= i
            IN [st EXCEPT !.frames[id].idx = j,
                          !.frames[id].key = st.entities[j].name,
                          !.frames[id].pc = "awaitCleanupEntities",
                          !.cleaned = @ \o [k \in 1..Len(st.entities[j].items) |->
                                               st.entities[j].items[k].id]]

FactoryState == [frames |-> calls2, entities |-> entities,
                 factoryCalls |-> factoryCalls, defines |-> defines,
                 factories |-> factories, cleanupStrategies |-> cleanupStrategies,
                 generated |-> generated, hookCalls |-> hookCalls,
                 cleaned |-> cleaned]

FactoryInstall(st) ==
    /\ calls2' = st.frames
    /\ entities' = st.entities
    /\ generated' = st.generated
    /\ hookCalls' = st.hookCalls
    /\ cleaned' = st.cleaned

\* define(definition), lines 41-48
Define(definition) ==
    /\ defines < MaxDefines
    /\ defines' = defines + 1
    /\ factories' = [factories EXCEPT ![definition.entity] = definition]
    /\ cleanupStrategies' = [cleanupStrategies EXCEPT
                               ![definition.entity] = DeclaredStrategy(definition)]
    /\ UNCHANGED <<entities, calls2, factoryCalls, generated, hookCalls, cleaned>>
    /\ UNCHANGED <<fixtureVars, seederVars>>

\* a caller invokes create(n, {transient: t})
Create(n, t) ==
    /\ factoryCalls < MaxFactoryCalls
    /\ factoryCalls' = factoryCalls + 1
    /\ Len(calls2) < MaxFactoryFrames
    /\ \E g \in GeneratorOutcomes :
          FactoryInstall(CreateCall(FactoryState, n, t, 0, g))
    /\ UNCHANGED <<factories, cleanupStrategies, defines, fixtureVars, seederVars>>

\* a caller invokes createMany(n, count, {transient: t})
CreateMany(n, count, t) ==
    /\ factoryCalls < MaxFactoryCalls
    /\ factoryCalls' = factoryCalls + 1
    /\ \E g \in GeneratorOutcomes :
         LET id == Len(calls2) + 1
             f == [NewCall("createMany", n, 0, FactoryState)
                     EXCEPT !.count = count, !.transient = t]
             st == CreateManyLoop([FactoryState EXCEPT !.frames = Append(@, f)], id, g)
         IN /\ Len(calls2) + 1 + count <= MaxFactoryFrames
            /\ FactoryInstall(st)
    /\ UNCHANGED <<factories, cleanupStrategies, defines, fixtureVars, seederVars>>

\* a caller invokes cleanup(strategy), lines 126-134
Cleanup(strategy) ==
    /\ factoryCalls < MaxFactoryCalls
    /\ factoryCalls' = factoryCalls + 1
    /\ LET id == Len(calls2) + 1
           f == NewCall("cleanup", strategy, 0, FactoryState)
       IN /\ Len(calls2) < MaxFactoryFrames
          /\ FactoryInstall(CleanupLoop(
                [FactoryState EXCEPT !.frames = Append(@, f)], id))
    /\ UNCHANGED <<factories, cleanupStrategies, defines, fixtureVars, seederVars>>

\* reset(), lines 159-162; Map.prototype.clear leaves running iterators at
\* the start of whatever is added afterwards
Reset ==
    /\ factoryCalls < MaxFactoryCalls
    /\ factoryCalls' = factoryCalls + 1
    /\ entities' = <<>>
    /\ cleanupStrategies' = [n \in Types |-> "none"]
    /\ calls2' = [i \in 1..Len(calls2) |->
                    IF calls2[i].op = "cleanup"
                    THEN [calls2[i] EXCEPT !.idx = 0] ELSE calls2[i]]
    /\ UNCHANGED <<factories, defines, generated, hookCalls, cleaned, fixtureVars, seederVars>>

\* the promise of factory.beforeCreate resolves: lines 73-82
BeforeCreateResolves(id) ==
    /\ calls2[id].pc = "awaitBeforeCreate"
    /\ FactoryInstall(AfterCreate(FactoryState, id))
    /\ UNCHANGED <<factories, cleanupStrategies, factoryCalls, defines, fixtureVars, seederVars>>

\* the promise of factory.afterCreate resolves: lines 81-90
AfterCreateResolves(id) ==
    /\ calls2[id].pc = "awaitAfterCreate"
    /\ FactoryInstall(FinishCreate(FactoryState, id))
    /\ UNCHANGED <<factories, cleanupStrategies, factoryCalls, defines, fixtureVars, seederVars>>

\* the error a hook throws at the await the call is suspended at
HookError(pc) ==
    IF pc = "awaitBeforeCreate" THEN "BeforeCreateError" ELSE "AfterCreateError"

\* mutant of HookRejects: the entity is tracked before the error is rethrown
HookRejectsTracked(id) ==
    /\ calls2[id].pc \in {"awaitBeforeCreate", "awaitAfterCreate"}
    /\ FactoryInstall(Reject(TrackEntity(FactoryState, calls2[id].name,
                                         calls2[id].entity),
                             id, HookError(calls2[id].pc)))
    /\ UNCHANGED <<factories, cleanupStrategies, factoryCalls, defines, fixtureVars, seederVars>>

\* the promise of a hook rejects: catch of lines 91-94
HookRejects(id) ==
    /\ calls2[id].pc \in {"awaitBeforeCreate", "awaitAfterCreate"}
    /\ FactoryInstall(Reject(FactoryState, id, HookError(calls2[id].pc)))
    /\ UNCHANGED <<factories, cleanupStrategies, factoryCalls, defines, fixtureVars, seederVars>>

\* createMany resumes after await this.create(...): lines 107-110
CreateManyAfterCreate(id) ==
    /\ calls2[id].pc = "awaitCreate"
    /\ LET c == calls2[calls2[id].waitOn[1]]
       IN /\ c.status # "pending"
          /\ \E g \in GeneratorOutcomes :
               FactoryInstall(
                 IF c.status = "rejected" THEN Reject(FactoryState, id, c.err)
                 ELSE CreateManyLoop(
                        [FactoryState EXCEPT !.frames[id].result = Append(@, c.entity)],
                        id, g))
    /\ UNCHANGED <<factories, cleanupStrategies, factoryCalls, defines, fixtureVars, seederVars>>

\* cleanup resumes after await this.cleanupEntities(...): lines 130-133
CleanupAfterEntities(id) ==
    /\ calls2[id].pc = "awaitCleanupEntities"
    /\ FactoryInstall(CleanupLoop(DeleteBucket(FactoryState, calls2[id].key), id))
    /\ UNCHANGED <<factories, cleanupStrategies, factoryCalls, defines, fixtureVars, seederVars>>

\* cleanupEntities throws (lines 143-146): the await of line 130 throws in
\* cleanup, which has no handler
CleanupEntitiesRejects(id) ==
    /\ calls2[id].pc = "awaitCleanupEntities"
    /\ FactoryInstall(Reject(FactoryState, id, "CleanupError"))
    /\ UNCHANGED <<factories, cleanupStrategies, factoryCalls, defines, fixtureVars, seederVars>>


\* ========================================================================
\* DatabaseSeeder
\* ========================================================================
\* number of seed(names) calls in one behaviour
MaxSeedCalls == 2

\* "tags" is a name no seeder is ever registered under
SeederNames == {"roles", "users", "posts", "tags"}

Environments == {"test", "production"}

\* SeederConfig together with the presence of the seeder function;
\* hasDeps / hasEnv = FALSE model the field being undefined
SeederConfig(hd, d, he, e, t) ==
    [registered |-> TRUE, hasDeps |-> hd, dependencies |-> d,
     hasEnv |-> he, environment |-> e, truncate |-> t]

NoSeeder ==
    [registered |-> FALSE, hasDeps |-> FALSE, dependencies |-> <<>>,
     hasEnv |-> FALSE, environment |-> {}, truncate |-> FALSE]

\* the registrations made: roles on its own, or depending on posts (which
\* closes a cycle); users after roles, allowed in test and development;
\* posts after users and roles, or after the unregistered tags
SeederInputs ==
    { <<"roles", SeederConfig(FALSE, <<>>, FALSE, {}, TRUE)>>,
      <<"roles", SeederConfig(TRUE, <<"posts">>, FALSE, {}, FALSE)>>,
      <<"users", SeederConfig(TRUE, <<"roles">>, TRUE, {"test", "development"}, TRUE)>>,
      <<"posts", SeederConfig(TRUE, <<"users", "roles">>, FALSE, {}, FALSE)>>,
      <<"posts", SeederConfig(TRUE, <<"tags">>, FALSE, {}, TRUE)>> }

\* the lists passed to seed
SeedInputs ==
    { <<"users">>, <<"posts", "users">>, <<"roles", "posts">>,
      <<"users", "roles", "users">>, <<"roles", "tags">> }

\* process.env.NODE_ENV || 'development'
CurrentEnvironment(env) == IF env = "undefined" THEN "development" ELSE env

RECURSIVE Visit(_, _, _)
RECURSIVE VisitDeps(_, _, _, _)

\* mutant of Visit: the name is pushed before its dependencies are visited
VisitPushFirst(cfg, acc, name) ==
    IF acc.err # "none" \/ name \in acc.visited THEN acc
    ELSE LET a1 == [acc EXCEPT !.visited = @ \cup {name},
                               !.sorted = Append(@, name)]
         IN IF cfg[name].registered /\ cfg[name].hasDeps
            THEN VisitDeps(cfg, a1, cfg[name].dependencies, 1)
            ELSE a1

\* sortByDependencies, lines 103-119: visit(name) on the accumulator
\* [visited, sorted, err]
Visit(cfg, acc, name) ==
    IF acc.err # "none" \/ name \in acc.visited THEN acc
    ELSE LET a1 == [acc EXCEPT !.visited = @ \cup {name}]
             a2 == IF cfg[name].registered /\ cfg[name].hasDeps
                   THEN VisitDeps(cfg, a1, cfg[name].dependencies, 1)
                   ELSE a1
         IN IF a2.err # "none" THEN a2
            ELSE [a2 EXCEPT !.sorted = Append(@, name)]

\* mutant of VisitDeps: a dependency is visited without seeders.has(dep)
VisitDepsUnchecked(cfg, acc, deps, k) ==
    IF k > Len(deps) \/ acc.err # "none" THEN acc
    ELSE VisitDeps(cfg, Visit(cfg, acc, deps[k]), deps, k + 1)

\* lines 110-115: the loop over config.dependencies
VisitDeps(cfg, acc, deps, k) ==
    IF k > Len(deps) \/ acc.err # "none" THEN acc
    ELSE IF ~cfg[deps[k]].registered
    THEN [acc EXCEPT !.err = "DependencyNotFound"]
    ELSE VisitDeps(cfg, Visit(cfg, acc, deps[k]), deps, k + 1)

RECURSIVE VisitAll(_, _, _, _)
\* lines 121-123: the loop over names
VisitAll(cfg, acc, names, k) ==
    IF k > Len(names) \/ acc.err # "none" THEN acc
    ELSE VisitAll(cfg, Visit(cfg, acc, names[k]), names, k + 1)

\* sortByDependencies, lines 99-126
SortByDependencies(cfg, names) ==
    VisitAll(cfg, [visited |-> {}, sorted |-> <<>>, err |-> "none"], names, 1)

\* a seed(names) call.  idx: position in sortedNames of the name in hand;
\* run: where its runSeeder call stands ("truncate" / "seeder": suspended
\* at that await; "resolved" / "rejected": settled); events: the skips,
\* truncate steps and seed function invocations of the call, in order
NewSeed(names) ==
    [names |-> names, sortedNames |-> <<>>, idx |-> 0, run |-> "none",
     status |-> "pending", err |-> "none", events |-> <<>>]

Event(kind, name) == [kind |-> kind, name |-> name]

\* mutant of RunSeeder: the environment list is not consulted
RunSeederAnyEnvironment(f, name) ==
    LET config == seeders[name]
    IN IF ~config.registered
       THEN [f EXCEPT !.run = "rejected", !.err = "SeederNotFound"]
       ELSE IF config.truncate
       THEN [f EXCEPT !.run = "truncate", !.events = Append(@, Event("truncate", name))]
       ELSE [f EXCEPT !.run = "seeder", !.events = Append(@, Event("seed", name))]

\* runSeeder, lines 64-87: the synchronous prefix of runSeeder(name)
RunSeeder(f, name) ==
    LET config == seeders[name]
    IN IF ~config.registered
       THEN [f EXCEPT !.run = "rejected", !.err = "SeederNotFound"]
       ELSE IF config.hasEnv /\ CurrentEnvironment(nodeEnv) \notin config.environment
       THEN [f EXCEPT !.run = "resolved", !.events = Append(@, Event("skip", name))]
       ELSE IF config.truncate
       THEN [f EXCEPT !.run = "truncate", !.events = Append(@, Event("truncate", name))]
       ELSE [f EXCEPT !.run = "seeder", !.events = Append(@, Event("seed", name))]

\* seed, lines 48-50: the loop goes on to the next name
SeedLoop(f) ==
    IF f.idx + 1 > Len(f.sortedNames)
    THEN [f EXCEPT !.status = "resolved", !.run = "none"]
    ELSE RunSeeder([f EXCEPT !.idx = @ + 1], f.sortedNames[f.idx + 1])

\* seed, lines 45-49: the synchronous prefix of seed(names)
SeedCall(names) ==
    LET r == SortByDependencies(seeders, names)
    IN IF r.err # "none"
       THEN [NewSeed(names) EXCEPT !.status = "rejected", !.err = r.err]
       ELSE SeedLoop([NewSeed(names) EXCEPT !.sortedNames = r.sorted])

\* register(name, seeder, config), lines 33-40: the last registration wins
SeederRegister(name, config) ==
    /\ seeders[name] # config
    /\ seeders' = [seeders EXCEPT ![name] = config]
    /\ UNCHANGED <<nodeEnv, seeds, fixtureVars, factoryVars>>

\* the harness sets process.env.NODE_ENV
SetEnv(env) ==
    /\ nodeEnv # env
    /\ nodeEnv' = env
    /\ UNCHANGED <<seeders, seeds, fixtureVars, factoryVars>>

\* a caller invokes seed(names)
Seed(names) ==
    /\ Len(seeds) < MaxSeedCalls
    /\ seeds' = Append(seeds, SeedCall(names))
    /\ UNCHANGED <<seeders, nodeEnv, fixtureVars, factoryVars>>

\* the promise of truncateTable resolves: lines 83-87
TruncateResolves(id) ==
    /\ seeds[id].run = "truncate"
    /\ seeds' = [seeds EXCEPT
                   ![id].run = "seeder",
                   ![id].events = Append(@, Event("seed", seeds[id].sortedNames[seeds[id].idx]))]
    /\ UNCHANGED <<seeders, nodeEnv, fixtureVars, factoryVars>>

\* the promise of the seed function resolves: lines 87-89
SeederResolves(id) ==
    /\ seeds[id].run = "seeder"
    /\ seeds' = [seeds EXCEPT ![id].run = "resolved"]
    /\ UNCHANGED <<seeders, nodeEnv, fixtureVars, factoryVars>>

\* the seed function throws: catch of lines 90-93
SeederRejects(id) ==
    /\ seeds[id].run = "seeder"
    /\ seeds' = [seeds EXCEPT ![id].run = "rejected", ![id].err = "SeedError"]
    /\ UNCHANGED <<seeders, nodeEnv, fixtureVars, factoryVars>>

\* mutant of SeedAfterRunSeeder: the loop goes on after a failed runSeeder
SeedAfterRunSeederContinue(id) ==
    /\ seeds[id].status = "pending"
    /\ seeds[id].run \in {"resolved", "rejected"}
    /\ seeds' = [seeds EXCEPT ![id] = SeedLoop(@)]
    /\ UNCHANGED <<seeders, nodeEnv, fixtureVars, factoryVars>>

\* seed resumes after await this.runSeeder(name): lines 48-50
SeedAfterRunSeeder(id) ==
    /\ seeds[id].status = "pending"
    /\ seeds[id].run \in {"resolved", "rejected"}
    /\ seeds' = [seeds EXCEPT ![id] =
                   IF @.run = "rejected" THEN [@ EXCEPT !.status = "rejected"]
                   ELSE SeedLoop(@)]
    /\ UNCHANGED <<seeders, nodeEnv, fixtureVars, factoryVars>>

\* the state after the constructors, lines 20-26 and 177-181, and lines
\* 14-18 of the seeder
Init ==
    /\ fixtures = <<>>
    /\ loadedFixtures = <<>>
    /\ setupPromises = [n \in Names |-> 0]
    /\ frames = <<>>
    /\ calls = 0
    /\ setupStarted = [n \in Names |-> 0]
    /\ setupResolved = [n \in Names |-> 0]
    /\ teardownStarted = [n \in Names |-> 0]
    /\ removed = [n \in Names |-> 0]
    /\ registerResult = RegisterResult("none", "none")
    /\ factories = [n \in Types |-> NoFactory]
    /\ entities = <<>>
    /\ cleanupStrategies = [n \in Types |-> "none"]
    /\ calls2 = <<>>
    /\ factoryCalls = 0
    /\ defines = 0
    /\ generated = 0
    /\ hookCalls = [before |-> 0, after |-> 0]
    /\ cleaned = <<>>
    /\ seeders = [n \in SeederNames |-> NoSeeder]
    /\ nodeEnv = "undefined"
    /\ seeds = <<>>

FactoryNext ==
    \/ \E definition \in FactoryInputs : Define(definition)
    \/ \E n \in Types, t \in BOOLEAN : Create(n, t)
    \/ \E n \in Types, count \in 0..MaxCount, t \in BOOLEAN : CreateMany(n, count, t)
    \/ \E strategy \in Strategies : Cleanup(strategy)
    \/ Reset
    \/ \E id \in 1..Len(calls2) : BeforeCreateResolves(id)
    \/ \E id \in 1..Len(calls2) : AfterCreateResolves(id)
    \/ \E id \in 1..Len(calls2) : HookRejects(id)
    \/ \E id \in 1..Len(calls2) : CreateManyAfterCreate(id)
    \/ \E id \in 1..Len(calls2) : CleanupAfterEntities(id)
    \/ \E id \in 1..Len(calls2) : CleanupEntitiesRejects(id)

SpecFixture == Init /\ [][FixtureNext]_vars

\* the fixture manager on an acyclic graph with two independent fixtures,
\* callers registering a name again included
ResolverNext ==
    \/ \E config \in ResolverInputs : Register(config)
    \/ \E n \in Names : Load(n)
    \/ \E n \in Names : Unload(n)
    \/ UnloadAll
    \/ \E id \in 1..Len(frames) : SetupResolves(id)
    \/ \E id \in 1..Len(frames) : SetupRejects(id)
    \/ \E id \in 1..Len(frames) : LoadAfterDeps(id)
    \/ \E id \in 1..Len(frames) : LoadAfterSetup(id)
    \/ \E id \in 1..Len(frames) : UnloadAfterChild(id)
    \/ \E id \in 1..Len(frames) : TeardownResolves(id)
    \/ \E id \in 1..Len(frames) : TeardownRejects(id)

SpecResolver == Init /\ [][ResolverNext]_vars

SpecFactory == Init /\ [][FactoryNext]_vars

SeederNext ==
    \/ \E input \in SeederInputs : SeederRegister(input[1], input[2])
    \/ \E env \in Environments \cup {"undefined"} : SetEnv(env)
    \/ \E names \in SeedInputs : Seed(names)
    \/ \E id \in 1..Len(seeds) : TruncateResolves(id)
    \/ \E id \in 1..Len(seeds) : SeederResolves(id)
    \/ \E id \in 1..Len(seeds) : SeederRejects(id)
    \/ \E id \in 1..Len(seeds) : SeedAfterRunSeeder(id)

SpecSeeder == Init /\ [][SeederNext]_vars

\* ------------------------------------------------------------------------
\* Observations used by the properties
\* ------------------------------------------------------------------------
FrameIds == 1..Len(frames)

LoadFrames == { i \in FrameIds : frames[i].op = "load" }

\* load frame i invoked fixture.setup itself
ExecutedSetup(i) ==
    \E s \in FrameIds : /\ frames[s].op = "setupPromise"
                        /\ frames[s].parent = i
                        /\ GetFixture(frames[s].name).setup

\* frame i returns in this step
Returns(i) ==
    /\ frames'[i].status = "resolved"
    /\ (i > Len(frames) \/ frames[i].status = "pending")

\* ------------------------------------------------------------------------
\* C1: when load(name) is called again while an earlier load(name) is still
\* pending (and the fixture was not unloaded in between), the setup callback
\* is executed by at most one of the two calls, and the later call resolves
\* only once a setup of name has resolved.
\* ------------------------------------------------------------------------
C1_ConcurrentLoadSetupOnce ==
    \A j \in LoadFrames : \A i \in frames[j].overlap :
        LET n == frames[j].name
        IN (HasFixture(n) /\ removed[n] = frames[i].removedAtCall)
             => /\ ~(ExecutedSetup(i) /\ ExecutedSetup(j))
                /\ (frames[j].status = "resolved" /\ GetFixture(n).setup)
                      => setupResolved[n] >= 1

\* ------------------------------------------------------------------------
\* C2: every loaded fixture has all of its declared dependencies loaded.
\* ------------------------------------------------------------------------
C2_LoadedDependenciesLoaded ==
    \A n \in Range(loadedFixtures) :
        \A d \in DeclaredDeps(n) : d \in Range(loadedFixtures)

\* ------------------------------------------------------------------------
\* C3: on an acyclic graph, a load(name) that has resolved finds every
\* transitive dependency registered and, where it has a setup callback,
\* that callback resolved; and no setup callback is started before the
\* setup callbacks of all declared dependencies have resolved.
\* ------------------------------------------------------------------------
SetupDone(d) == HasFixture(d) /\ (GetFixture(d).setup => setupResolved[d] >= 1)

C3_LoadResolvesAfterDependencies ==
    \A i \in LoadFrames :
        (frames[i].status = "resolved" /\ ~CyclicFrom(frames[i].name))
            => \A d \in TransDeps(frames[i].name) : SetupDone(d)

C3_SetupStartsAfterDependencies ==
    \A n \in Names :
        setupStarted'[n] > setupStarted[n]
            => \A d \in DeclaredDeps(n) : SetupDone(d)

C3_DependenciesFirst ==
    /\ [] C3_LoadResolvesAfterDependencies
    /\ [][C3_SetupStartsAfterDependencies]_vars

\* a top-level load of a fixture with a not yet loaded chain of dependencies
\* below it has resolved, the setups of the chain having run
C3_Witness ==
    \E i \in LoadFrames :
        /\ frames[i].parent = 0
        /\ frames[i].status = "resolved"
        /\ ~frames[i].wasLoaded
        /\ ExecutedSetup(i)
        /\ \E d \in DeclaredDeps(frames[i].name) :
              /\ GetFixture(d).setup
              /\ DeclaredDeps(d) # {}
              /\ \E k \in LoadFrames : frames[k].root = i /\ frames[k].name = d
                                       /\ ExecutedSetup(k)

\* ------------------------------------------------------------------------
\* C4: load(name) on a graph with a cycle settles by rejecting with a
\* cyclic-dependency error.
\* ------------------------------------------------------------------------
C4_CycleRejectedAsCycle ==
    \A i \in LoadFrames :
        (frames[i].parent = 0 /\ frames[i].cyclic /\ frames[i].status # "pending")
            => (frames[i].status = "rejected"
                /\ frames[i].err = "CyclicDependencyError")

\* ------------------------------------------------------------------------
\* C5: a load(name) on a graph with a cycle runs no setup promise for any
\* fixture: no setup callback is invoked and nothing is added to the loaded
\* set by that call.
\* ------------------------------------------------------------------------
C5_CycleNoSetup ==
    \A s \in FrameIds :
        frames[s].op = "setupPromise" => ~frames[frames[s].root].cyclic

\* ------------------------------------------------------------------------
\* C6: when name's teardown callback starts, no loaded fixture depends on
\* name; and when unload(name), called on a loaded fixture, returns, neither
\* name nor any fixture depending on it is loaded.
\* ------------------------------------------------------------------------
Dependents(n, loaded) == { m \in Range(loaded) : n \in TransDeps(m) }

C6_UnloadStep ==
    /\ \A n \in Names :
          teardownStarted'[n] > teardownStarted[n]
              => Dependents(n, loadedFixtures') = {}
    /\ \A i \in 1..Len(frames') :
          (frames'[i].op = "unload" /\ frames'[i].wasLoaded /\ Returns(i))
              => /\ frames'[i].name \notin Range(loadedFixtures')
                 /\ Dependents(frames'[i].name, loadedFixtures') = {}

C6_UnloadCascades == [][C6_UnloadStep]_vars

\* ------------------------------------------------------------------------
\* Observations on the factory manager
\* ------------------------------------------------------------------------
\* call i of the factory manager returns in this step
FactoryReturns(i) ==
    /\ calls2'[i].status = "resolved"
    /\ (i > Len(calls2) \/ calls2[i].status = "pending")

\* number of times e occurs in the bucket b
Occurrences(b, e) == Cardinality({ k \in 1..Len(b.items) : b.items[k] = e })

\* nothing but call i ran between its call and this step
RanAlone(i) ==
    /\ calls2'[i].alone
    /\ factoryCalls' + defines' = calls2'[i].opsAtCall + 1

\* ------------------------------------------------------------------------
\* C7: when a create without transient returns, the entity is exactly once
\* in the bucket of its entity type, in no other bucket, and the strategy
\* recorded for that bucket is the cleanup strategy of the definition it was
\* created under (so cleanup of that strategy reclaims it).
\* ------------------------------------------------------------------------
C7_CreateStep ==
    \A i \in 1..Len(calls2') :
        (calls2'[i].op = "create" /\ ~calls2'[i].transient /\ FactoryReturns(i))
            => LET e == calls2'[i].entity
               IN /\ HasBucket(entities', e.entity)
                  /\ \A k \in 1..Len(entities') :
                        Occurrences(entities'[k], e) =
                            IF entities'[k].name = e.entity THEN 1 ELSE 0
                  /\ cleanupStrategies'[e.entity] = e.strategy

C7_CreatedEntityTracked == [][C7_CreateStep]_vars

\* ------------------------------------------------------------------------
\* C8: no bucket ever holds an entity created with transient set.
\* ------------------------------------------------------------------------
C8_TransientNeverTracked ==
    \A k \in 1..Len(entities) :
        \A j \in 1..Len(entities[k].items) : ~entities[k].items[j].transient

\* a create with transient set has run through its hooks and returned while
\* entities of the same type are tracked
C8_Witness ==
    \E i \in 1..Len(calls2) :
        /\ calls2[i].op = "create"
        /\ calls2[i].transient
        /\ calls2[i].status = "resolved"
        /\ calls2[i].factory.afterCreate
        /\ HasBucket(entities, calls2[i].name)

\* ------------------------------------------------------------------------
\* C9: a cleanup(strategy) that runs on its own leaves exactly the buckets
\* of the entity types whose declared strategy differs from strategy, with
\* the same entities in the same order.
\* ------------------------------------------------------------------------
C9_CleanupStep ==
    \A i \in 1..Len(calls2') :
        (calls2'[i].op = "cleanup" /\ FactoryReturns(i) /\ RanAlone(i))
            => entities' =
                 SelectSeq(calls2'[i].before,
                           LAMBDA b : DeclaredStrategy(factories[b.name])
                                         # calls2'[i].name)

C9_CleanupRemovesMatching == [][C9_CleanupStep]_vars

\* ------------------------------------------------------------------------
\* C10: when createMany(type, n) returns, its result holds n entities, the
\* k-th being the entity of the k-th create it made, each from a later
\* invocation of the generator than the one before; createMany(type, 0)
\* returns the empty sequence at once, with no generator or hook invoked and
\* no bucket changed.
\* ------------------------------------------------------------------------
ChildrenOf(i) == SelectSeq([k \in 1..Len(calls2') |-> k],
                           LAMBDA k : calls2'[k].parent = i)

C10_CreateManyStep ==
    \A i \in 1..Len(calls2') :
        (calls2'[i].op = "createMany" /\ FactoryReturns(i))
            => LET r == calls2'[i].result
                   c == ChildrenOf(i)
               IN /\ Len(r) = calls2'[i].count
                  /\ Len(c) = calls2'[i].count
                  /\ \A k \in 1..Len(r) : r[k] = calls2'[c[k]].entity
                  /\ \A k \in 1..(Len(r) - 1) : r[k].id < r[k + 1].id
                  /\ calls2'[i].count = 0
                        => /\ i > Len(calls2)
                           /\ generated' = generated
                           /\ hookCalls' = hookCalls
                           /\ entities' = entities

C10_CreateManyReturnsCount == [][C10_CreateManyStep]_vars

\* a createMany of two entities has returned both
C10_Witness ==
    \E i \in 1..Len(calls2) :
        /\ calls2[i].op = "createMany"
        /\ calls2[i].status = "resolved"
        /\ calls2[i].count >= 2
        /\ Len(calls2[i].result) >= 2

\* ------------------------------------------------------------------------
\* Observations on the seeder
\* ------------------------------------------------------------------------
\* the declared dependencies of seeder n, as a set
SeederDeps(n) ==
    IF seeders[n].registered /\ seeders[n].hasDeps
    THEN Range(seeders[n].dependencies) ELSE {}

RECURSIVE SeederReach(_, _)
SeederReach(S, k) ==
    IF k = 0 THEN S
    ELSE SeederReach(S \cup UNION { SeederDeps(m) : m \in S }, k - 1)

\* the requested names and their transitive dependencies
SeederClosure(names) == SeederReach(Range(names), Cardinality(SeederNames))

\* no seeder of S depends on itself, directly or transitively
SeederAcyclic(S) ==
    \A m \in S : m \notin SeederReach(SeederDeps(m), Cardinality(SeederNames))

\* position of n in the sequence q (0 when absent)
Position(q, n) ==
    IF n \in Range(q) THEN CHOOSE k \in 1..Len(q) : q[k] = n ELSE 0

\* seed(names) is called in this step; the call is seeds'[Len(seeds')]
SeedCalled == Len(seeds') = Len(seeds) + 1

\* the names call f has processed so far: skipped, or seed function invoked
ProcessedNames(f) ==
    LET done == SelectSeq(f.events, LAMBDA e : e.kind \in {"skip", "seed"})
    IN [k \in 1..Len(done) |-> done[k].name]

\* ------------------------------------------------------------------------
\* C11: when seed(names) is called on registered seeders whose dependency
\* closure is acyclic and registered, sortedNames holds every name of the
\* closure exactly once, each after all of its declared dependencies; and
\* the seeders a call processes are, in order, a prefix of sortedNames, the
\* whole of it once the call has resolved.
\* ------------------------------------------------------------------------
C11_SortStep ==
    SeedCalled =>
        LET f == seeds'[Len(seeds')]
            C == SeederClosure(f.names)
        IN ((\A n \in C : seeders[n].registered) /\ SeederAcyclic(C))
             => /\ f.err # "DependencyNotFound"
                /\ Range(f.sortedNames) = C
                /\ Len(f.sortedNames) = Cardinality(C)
                /\ \A n \in C : \A d \in SeederDeps(n) :
                      Position(f.sortedNames, d) < Position(f.sortedNames, n)

C11_ProcessedInOrder ==
    \A i \in 1..Len(seeds) :
        LET q == ProcessedNames(seeds[i])
        IN /\ Len(q) <= Len(seeds[i].sortedNames)
           /\ \A k \in 1..Len(q) : q[k] = seeds[i].sortedNames[k]
           /\ seeds[i].status = "resolved" => Len(q) = Len(seeds[i].sortedNames)

C11_TopologicalOrder ==
    /\ [][C11_SortStep]_vars
    /\ [] C11_ProcessedInOrder

\* seed(["posts", "users"]) has resolved after processing roles, users and
\* posts: the dependent was requested first and the dependencies are shared
C11_Witness ==
    \E i \in 1..Len(seeds) :
        /\ seeds[i].status = "resolved"
        /\ seeds[i].names = <<"posts", "users">>
        /\ ProcessedNames(seeds[i]) = <<"roles", "users", "posts">>

\* ------------------------------------------------------------------------
\* C12: when seed(names) is called while a seeder of the dependency closure
\* of names declares a dependency that is not registered, the call fails in
\* the step that makes it with no seed function invoked and no truncate
\* step performed, and a call that failed this way never performs any.
\* ------------------------------------------------------------------------
UnresolvedDependency(names) ==
    \E n \in SeederClosure(names) :
        \E d \in SeederDeps(n) : ~seeders[d].registered

C12_SeedStep ==
    SeedCalled =>
        LET f == seeds'[Len(seeds')]
        IN UnresolvedDependency(f.names)
             => /\ f.status = "rejected"
                /\ f.err = "DependencyNotFound"
                /\ f.events = <<>>

C12_NothingRan ==
    \A i \in 1..Len(seeds) :
        seeds[i].err = "DependencyNotFound"
            => seeds[i].status = "rejected" /\ seeds[i].events = <<>>

C12_UnresolvedDependencyThrowsFirst ==
    /\ [][C12_SeedStep]_vars
    /\ [] C12_NothingRan

\* seed(["roles", "posts"]) has failed on the unregistered dependency of
\* posts, the second name, roles being registered with a truncate step
C12_Witness ==
    \E i \in 1..Len(seeds) :
        /\ seeds[i].names = <<"roles", "posts">>
        /\ seeds[i].err = "DependencyNotFound"
        /\ seeders["roles"].registered /\ seeders["roles"].truncate
        /\ seeders["posts"].dependencies = <<"tags">>

\* ------------------------------------------------------------------------
\* C13: when seed comes to a registered seeder whose environment list does
\* not contain the current environment, it records a skip only: no truncate
\* step, no seed function, no error, and the call goes on; a seeder without
\* an environment list is truncated or seeded, never skipped; and no call
\* both skips a name and truncates or seeds it.
\* ------------------------------------------------------------------------
\* call i comes to the next name of its order in this step
Reaches(i) ==
    /\ i <= Len(seeds')
    /\ seeds'[i].idx > (IF i <= Len(seeds) THEN seeds[i].idx ELSE 0)

C13_RunSeederStep ==
    \A i \in 1..Len(seeds') :
        Reaches(i) =>
            LET f == seeds'[i]
                n == f.sortedNames[f.idx]
                old == IF i <= Len(seeds) THEN seeds[i].events ELSE <<>>
                excluded == /\ seeders[n].hasEnv
                            /\ CurrentEnvironment(nodeEnv) \notin seeders[n].environment
            IN seeders[n].registered =>
                 /\ excluded => /\ f.events = Append(old, Event("skip", n))
                                /\ f.run = "resolved"
                                /\ f.status = "pending" /\ f.err = "none"
                 /\ ~excluded => /\ Len(f.events) = Len(old) + 1
                                 /\ f.events[Len(f.events)].name = n
                                 /\ f.events[Len(f.events)].kind \in {"truncate", "seed"}

C13_SkippedStaysSkipped ==
    \A i \in 1..Len(seeds) :
        \A j, k \in 1..Len(seeds[i].events) :
            (seeds[i].events[j].kind = "skip" /\ j # k)
                => seeds[i].events[k].name # seeds[i].events[j].name

C13_EnvironmentSkip ==
    /\ [][C13_RunSeederStep]_vars
    /\ [] C13_SkippedStaysSkipped

\* in production seed(["posts", "users"]) has resolved with roles truncated
\* and seeded, users skipped, and posts, which depends on users, seeded
C13_Witness ==
    \E i \in 1..Len(seeds) :
        /\ seeds[i].status = "resolved"
        /\ seeds[i].events = << Event("truncate", "roles"), Event("seed", "roles"),
                                Event("skip", "users"), Event("seed", "posts") >>

\* ------------------------------------------------------------------------
\* C14: when a seed function throws, its call of seed takes that error and
\* from then on does nothing but reject with it: no further seeder of the
\* order is skipped, truncated or invoked and the call never resolves; and
\* no step takes back what a call has done.
\* ------------------------------------------------------------------------
C14_SeedFailureStep ==
    \A i \in 1..Len(seeds) :
        /\ (seeds[i].run = "seeder" /\ seeds'[i].run = "rejected")
              => seeds'[i].err = "SeedError"
        /\ (seeds[i].err = "SeedError" /\ seeds'[i] # seeds[i])
              => seeds'[i] = [seeds[i] EXCEPT !.status = "rejected"]
        /\ Len(seeds'[i].events) >= Len(seeds[i].events)
        /\ SubSeq(seeds'[i].events, 1, Len(seeds[i].events)) = seeds[i].events

C14_SeedFailureAborts == [][C14_SeedFailureStep]_vars

\* a seed call has rejected with the error of the second seed function of
\* three in its order
C14_Witness ==
    \E i \in 1..Len(seeds) :
        /\ seeds[i].status = "rejected"
        /\ seeds[i].err = "SeedError"
        /\ seeds[i].idx = 2
        /\ Len(seeds[i].sortedNames) = 3
        /\ Event("seed", seeds[i].sortedNames[1]) \in Range(seeds[i].events)

\* ------------------------------------------------------------------------
\* C15: while load(name) waits for the loads of its dependencies, the load
\* of a dependency has invoked the setup callback only if the load of every
\* dependency declared before it has resolved (a failed one aside).
\* ------------------------------------------------------------------------
C15_DependenciesOneAtATime ==
    \A p \in LoadFrames :
        frames[p].pc = "awaitDeps" =>
            \A i, j \in 1..Len(frames[p].waitOn) :
                (/\ i < j
                 /\ frames[frames[p].waitOn[i]].status # "rejected"
                 /\ ExecutedSetup(frames[p].waitOn[j]))
                    => frames[frames[p].waitOn[i]].status = "resolved"

\* ------------------------------------------------------------------------
\* C16: a load(name) called while name is loaded invokes no setup callback,
\* calls no load of a dependency and leaves the loaded set unchanged; the
\* same holds for a load(name) of a fixture with a setup callback called
\* after an earlier load(name) has resolved with no unload of name since,
\* so the number of executions of the setup stays what it was.
\* ------------------------------------------------------------------------
\* a caller invokes load in this step; the call is frame Len(frames) + 1
LoadCalled ==
    /\ calls' = calls + 1
    /\ frames'[Len(frames) + 1].op = "load"

LoadedBefore(n) ==
    \E i \in LoadFrames :
        /\ frames[i].name = n
        /\ frames[i].status = "resolved"
        /\ frames[i].removedAtCall = removed[n]
        /\ GetFixture(n).setup

C16_LoadStep ==
    LoadCalled =>
        LET n == frames'[Len(frames) + 1].name
        IN (n \in Range(loadedFixtures) \/ (HasFixture(n) /\ LoadedBefore(n)))
             => /\ setupStarted' = setupStarted
                /\ loadedFixtures' = loadedFixtures
                /\ Len(frames') = Len(frames) + 1
                /\ frames'[Len(frames) + 1].status # "rejected"

RegisterCalled == registerResult' # registerResult \/ fixtures' # fixtures

C17_RegisterStep ==
    RegisterCalled =>
        LET n == registerResult'.name
        IN /\ HasFixture(n) => /\ registerResult'.err = "AlreadyRegistered"
                               /\ fixtures' = fixtures
           /\ ~HasFixture(n) => /\ registerResult'.err = "none"
                                /\ Len(fixtures') = Len(fixtures) + 1
                                /\ SubSeq(fixtures', 1, Len(fixtures)) = fixtures
                                /\ fixtures'[Len(fixtures')].name = n
           /\ loadedFixtures' = loadedFixtures
           /\ setupPromises' = setupPromises
           /\ setupStarted' = setupStarted
           /\ teardownStarted' = teardownStarted

C17_DuplicateRegisterRejected == [][C17_RegisterStep]_vars

\* a register of a has thrown while a fixture is loaded and a load is in
\* flight
C17_Witness ==
    /\ registerResult = RegisterResult("a", "AlreadyRegistered")
    /\ loadedFixtures # <<>>
    /\ \E n \in Names : setupPromises[n] # 0 /\ n \notin Range(loadedFixtures)

\* ------------------------------------------------------------------------
\* C18: a load(name) of a registered fixture called while its dependency
\* closure names an unregistered fixture invokes no setup callback, and the
\* call ends rejected with the unknown-fixture error.
\* ------------------------------------------------------------------------
C18_LoadStep ==
    LoadCalled =>
        LET n == frames'[Len(frames) + 1].name
        IN (HasFixture(n) /\ \E d \in TransDeps(n) : ~HasFixture(d))
             => /\ setupStarted' = setupStarted
                /\ frames'[Len(frames) + 1].status # "resolved"
                /\ frames'[Len(frames) + 1].err \in {"none", "FixtureNotFound"}

C18_UnknownDependencyNoSetup == [][C18_LoadStep]_vars

\* ------------------------------------------------------------------------
\* C19: when unloadAll has failed on the teardown of one fixture, it has
\* called unload for every fixture of its snapshot that neither depends on
\* the failing fixture nor is depended on by it.
\* ------------------------------------------------------------------------
\* the fixtures whose teardown callback threw under the call u
FailedTeardowns(u) ==
    { frames[k].name : k \in { k \in FrameIds :
        /\ frames[k].op = "unload"
        /\ frames[k].root = u
        /\ frames[k].status = "rejected"
        /\ frames[k].err = "TeardownError"
        /\ ~\E c \in FrameIds : frames[c].parent = k /\ frames[c].status = "rejected" } }

Unrelated(n, m) == n # m /\ n \notin TransDeps(m) /\ m \notin TransDeps(n)

C19_UnloadAllAttemptsAll ==
    \A u \in FrameIds :
        (frames[u].op = "unloadAll" /\ frames[u].status = "rejected")
            => \A m \in FailedTeardowns(u) :
                 \A k \in 1..Len(frames[u].snap) :
                    Unrelated(frames[u].snap[k], m)
                        => \E c \in FrameIds : /\ frames[c].op = "unload"
                                               /\ frames[c].root = u
                                               /\ frames[c].name = frames[u].snap[k]

\* ------------------------------------------------------------------------
\* C20: when a cleanup(strategy) that ran on its own fails, every bucket
\* that was tracked at its call under that strategy has been handed to the
\* entity-cleanup routine.
\* ------------------------------------------------------------------------
C20_CleanupStep ==
    \A i \in 1..Len(calls2) :
        (/\ calls2[i].op = "cleanup"
         /\ calls2[i].status = "pending"
         /\ calls2'[i].status = "rejected"
         /\ RanAlone(i))
            => \A k \in 1..Len(calls2[i].before) :
                  cleanupStrategies[calls2[i].before[k].name] = calls2[i].name
                      => \A j \in 1..Len(calls2[i].before[k].items) :
                            calls2[i].before[k].items[j].id \in Range(cleaned')

C20_CleanupAttemptsAllMatching == [][C20_CleanupStep]_vars

\* ------------------------------------------------------------------------
\* C21: when the afterCreate hook of a create without transient throws,
\* create rejects with the hook's error and the entity is in the bucket of
\* its entity type.
\* ------------------------------------------------------------------------
C21_AfterCreateFailureStep ==
    \A i \in 1..Len(calls2) :
        (/\ calls2[i].op = "create"
         /\ calls2[i].pc = "awaitAfterCreate"
         /\ ~calls2[i].transient
         /\ calls2'[i].status = "rejected")
            => /\ calls2'[i].err = "AfterCreateError"
               /\ HasBucket(entities', calls2[i].name)
               /\ \E k \in 1..Len(entities') :
                     /\ entities'[k].name = calls2[i].name
                     /\ Occurrences(entities'[k], calls2[i].entity) = 1

C21_FailedHookEntityTracked == [][C21_AfterCreateFailureStep]_vars

\* ------------------------------------------------------------------------
\* C22: when factory.attributes() or the beforeCreate hook throws, create
\* rejects with that error in the same step, the afterCreate hook is not
\* invoked and every bucket is unchanged; and a create that failed this way
\* stays as it is.
\* ------------------------------------------------------------------------
EarlyFailures == {"GeneratorError", "BeforeCreateError"}

C22_EarlyFailureStep ==
    \A i \in 1..Len(calls2') :
        /\ (/\ calls2'[i].op = "create"
            /\ calls2'[i].err \in EarlyFailures
            /\ (i > Len(calls2) \/ calls2[i].status = "pending"))
              => /\ calls2'[i].status = "rejected"
                 /\ calls2'[i].err = (IF i > Len(calls2) THEN "GeneratorError"
                                      ELSE "BeforeCreateError")
                 /\ hookCalls'.after = hookCalls.after
                 /\ entities' = entities
        /\ (i <= Len(calls2) /\ calls2[i].op = "create"
              /\ calls2[i].err \in EarlyFailures)
              => calls2'[i] = calls2[i]
        /\ (i > Len(calls2) /\ calls2'[i].op = "create"
              /\ calls2'[i].factory # NoFactory
              /\ generated' > generated /\ calls2'[i].entity = NoEntity)
              => calls2'[i].err = "GeneratorError"
        /\ (i <= Len(calls2) /\ calls2[i].pc = "awaitBeforeCreate"
              /\ calls2'[i].status = "rejected")
              => calls2'[i].err = "BeforeCreateError"

C22_EarlyFailureLeavesNoTrace == [][C22_EarlyFailureStep]_vars

\* one create has failed in the generator and another in the beforeCreate
\* hook of a factory with an afterCreate hook, while a bucket is tracked
C22_Witness ==
    /\ entities # <<>>
    /\ \E i, j \in 1..Len(calls2) :
          /\ calls2[i].op = "create" /\ calls2[i].err = "GeneratorError"
          /\ calls2[j].op = "create" /\ calls2[j].err = "BeforeCreateError"
          /\ calls2[j].factory.afterCreate /\ ~calls2[j].transient

\* ------------------------------------------------------------------------
\* C23: when a load(name) returns with no other call in flight, the
\* in-flight map has no entry for name; and when an unload(name) returns
\* with no other call in flight, name is neither loaded nor in the
\* in-flight map.
\* ------------------------------------------------------------------------
\* frame i returns in this step and no other frame is pending after it
ReturnsLast(i) ==
    /\ Returns(i)
    /\ \A k \in 1..Len(frames') : k # i => frames'[k].status # "pending"

C23_ReturnStep ==
    \A i \in 1..Len(frames') :
        (frames'[i].parent = 0 /\ ReturnsLast(i) /\ HasFixture(frames'[i].name))
            => /\ frames'[i].op = "load"
                    => setupPromises'[frames'[i].name] = 0
               /\ frames'[i].op = "unload"
                    => /\ frames'[i].name \notin Range(loadedFixtures')
                       /\ setupPromises'[frames'[i].name] = 0

C23_NoInFlightEntryLeft == [][C23_ReturnStep]_vars

\* ------------------------------------------------------------------------
\* C24: a step of a create or cleanup call removes a tracked entity from
\* its bucket only if the entity has been handed to cleanupEntities.
\* ------------------------------------------------------------------------
\* the entities tracked in the buckets ents
Tracked(ents) ==
    UNION { Range(ents[k].items) : k \in 1..Len(ents) }

C24_CleanupDeleteStep ==
    factoryCalls' = factoryCalls =>
        \A e \in Tracked(entities) :
            e \notin Tracked(entities') => e.id \in Range(cleaned)

C24_NoEntityDroppedUncleaned == [][C24_CleanupDeleteStep]_vars

\* ------------------------------------------------------------------------
\* C25: a seed(names) call that fails because a requested name is not a
\* registered seeder has skipped, truncated and seeded nothing.
\* ------------------------------------------------------------------------
C25_UnknownSeederFailsFirst ==
    \A i \in 1..Len(seeds) :
        seeds[i].err = "SeederNotFound" => seeds[i].events = <<>>

\* ------------------------------------------------------------------------
\* C26: when a load(name) whose own setup callback rejected returns with
\* nothing else in flight, it has rejected with the setup's error, name is
\* not loaded and the in-flight map has no entry for name.
\* ------------------------------------------------------------------------
\* the setup callback invoked by load frame i has rejected
OwnSetupRejected(i) ==
    \E k \in 1..Len(frames') : /\ frames'[k].op = "setupPromise"
                               /\ frames'[k].parent = i
                               /\ frames'[k].status = "rejected"

C26_SetupFailureStep ==
    \A i \in 1..Len(frames') :
        (/\ frames'[i].op = "load"
         /\ frames'[i].parent = 0
         /\ frames'[i].status = "rejected"
         /\ i <= Len(frames) /\ frames[i].status = "pending"
         /\ OwnSetupRejected(i)
         /\ \A k \in 1..Len(frames') : k # i => frames'[k].status # "pending")
            => /\ frames'[i].err = "SetupError"
               /\ frames'[i].name \notin Range(loadedFixtures')
               /\ setupPromises'[frames'[i].name] = 0

C26_SetupFailureClearsInFlight == [][C26_SetupFailureStep]_vars

\* ------------------------------------------------------------------------
\* C27: no two unload calls of the same fixture (made by callers or by
\* unloadAll) are both waiting for the fixture's teardown callback.
\* ------------------------------------------------------------------------
C27_TeardownOnce ==
    \A i, j \in FrameIds :
        (/\ i # j
         /\ frames[i].op = "unload" /\ frames[j].op = "unload"
         /\ frames[i].name = frames[j].name)
            => ~(frames[i].pc = "awaitTeardown" /\ frames[j].pc = "awaitTeardown")

\* ------------------------------------------------------------------------
\* C28: every entity type that has a tracked bucket has a cleanup strategy
\* recorded.
\* ------------------------------------------------------------------------
C28_TrackedBucketHasStrategy ==
    \A k \in 1..Len(entities) : cleanupStrategies[entities[k].name] # "none"

\* ------------------------------------------------------------------------
\* C29: a step of a create or cleanup call removes a tracked entity only as
\* the step of a cleanup(s) resuming from cleanupEntities of the entity's
\* bucket, s being the strategy of the definition the entity was created
\* under.
\* ------------------------------------------------------------------------
\* cleanup frame i resumes from await this.cleanupEntities(...) in this step
CleanupResumes(i) ==
    /\ calls2[i].op = "cleanup"
    /\ calls2[i].pc = "awaitCleanupEntities"
    /\ \/ calls2'[i].status # "pending"
       \/ calls2'[i].key # calls2[i].key

C29_CleanupDeleteStep ==
    factoryCalls' = factoryCalls =>
        \A e \in Tracked(entities) :
            e \notin Tracked(entities') =>
                \E i \in 1..Len(calls2) : /\ CleanupResumes(i)
                                          /\ calls2[i].key = e.entity
                                          /\ calls2[i].name = e.strategy

C29_RemovedByOwnStrategy == [][C29_CleanupDeleteStep]_vars

\* ------------------------------------------------------------------------
\* C30: when seed(names) is called while the dependency closure of names is
\* registered and contains a cycle, the call fails in the step that makes it
\* with no skip, truncate step or seed function invocation.
\* ------------------------------------------------------------------------
C30_SeedStep ==
    SeedCalled =>
        LET f == seeds'[Len(seeds')]
            C == SeederClosure(f.names)
        IN ((\A n \in C : seeders[n].registered) /\ ~SeederAcyclic(C))
             => /\ f.status = "rejected"
                /\ f.events = <<>>

C30_CycleRaisesBeforeSeeding == [][C30_SeedStep]_vars

====
